---- MODULE Spec2Model ----
(***************************************************************************)
(* The schema layer of services/api/src/utils/schema.js: the search query  *)
(* builder, the soft-delete lifecycle and its query variants, the scope    *)
(* aware serializer and the attribute compiler.                            *)
(***************************************************************************)
EXTENDS Integers, Sequences, FiniteSets, TLC

VARIABLES
    store,      \* the collection: document id -> persisted fields
    nextId,     \* number of ObjectIds generated so far (ids are never reused)
    attributes, \* the attributes the schema was created from
    models,     \* mongoose.models: the registry, model name -> compiled schema
    rd,         \* the answer of the client's last completed call
    spc,        \* position of the client's search() call
    sbody,      \* the body search() was called with
    squery,     \* the query search() built from it
    sdata,      \* answer of the page fetch, once it has resolved
    stotal,     \* answer of the count, once it has resolved
    sfetched,   \* the page fetch has resolved
    scounted,   \* the count has resolved
    dirty,      \* a write landed between the two reads of the pending search
    call,       \* the arguments of a serialization or of a schema compilation
    outcome     \* what that call produced

vars == <<store, nextId, attributes, models, rd, spc, sbody, squery, sdata, stotal,
          sfetched, scounted, dirty, call, outcome>>

(***************************************************************************)
(* JavaScript values.  Every value is a record of the same shape so that   *)
(* values of different kinds can be compared.  An object is the ordered    *)
(* list of its entries <<key, value>>; an array is the list of its         *)
(* elements keyed by their index.  A key is the list of the segments that  *)
(* path.join('.') joins: <<"profile", "a">> is the key "profile.a".        *)
(***************************************************************************)
JsVal(k, l, c, e) == [kind |-> k, lit |-> l, chars |-> c, entries |-> e]

Undefined == JsVal("undefined", "", <<>>, <<>>)
Bool(l) == JsVal("boolean", l, <<>>, <<>>)
Num(l) == JsVal("number", l, <<>>, <<>>)
DateVal(l) == JsVal("date", l, <<>>, <<>>)
Str(cs) == JsVal("string", "", cs, <<>>)
RegExpVal(toks) == JsVal("regex", "", toks, <<>>)
Obj(es) == JsVal("object", "", <<>>, es)
EmptyObj == Obj(<<>>)

IndexName == <<"0", "1", "2", "3">>
Arr(items) ==
    JsVal("array", "", <<>>,
          [i \in 1..Len(items) |-> <<(<<IndexName[i]>>), items[i]>>])

Items(arr) == {arr.entries[i][2] : i \in 1..Len(arr.entries)}

\* ToBoolean, as used by `if (obj)`, `!value`, `if (keyword)`.
Truthy(v) ==
    CASE v.kind = "undefined" -> FALSE
      [] v.kind = "boolean" -> v.lit = "true"
      [] v.kind = "number" -> v.lit # "0"
      [] v.kind = "string" -> v.chars # <<>>
      [] OTHER -> TRUE

\* The keys of the model that start with the operator prefix "$".
OperatorKeys == {"$in", "$exists", "$gte", "$lte", "$ne", "$or"}

IsArray(v) == v.kind = "array"
IsPlainObject(v) == v.kind = "object"

ObjIndex(o, key) ==
    LET hits == {i \in 1..Len(o.entries) : o.entries[i][1] = key}
    IN IF hits = {} THEN 0 ELSE CHOOSE i \in hits : TRUE

\* `key in o`
ObjHas(o, key) == ObjIndex(o, key) # 0

\* o[key]
ObjGet(o, key) ==
    IF ObjHas(o, key) THEN o.entries[ObjIndex(o, key)][2] ELSE Undefined

\* o[key] = val: an existing key keeps its place, a new one goes last.
ObjSet(o, key, val) ==
    IF ObjHas(o, key)
    THEN Obj([o.entries EXCEPT ![ObjIndex(o, key)] = <<key, val>>])
    ELSE Obj(Append(o.entries, <<key, val>>))

\* delete o[key]
ObjDelete(o, key) ==
    Obj(SelectSeq(o.entries, LAMBDA e : e[1] # key))

RECURSIVE AssignFrom(_, _, _)
AssignFrom(target, es, i) ==
    IF i > Len(es) THEN target
    ELSE AssignFrom(ObjSet(target, es[i][1], es[i][2]), es, i + 1)

\* Object.assign(target, src), and {...a, ...b} as ObjAssign(a, b)
ObjAssign(target, src) == AssignFrom(target, src.entries, 1)

(***************************************************************************)
(* Strings are lists of characters.  The alphabet has a letter in both     *)
(* cases and one regular-expression metacharacter.                         *)
(***************************************************************************)
LowerCase(c) ==
    CASE c = "A" -> "a"
      [] c = "B" -> "b"
      [] OTHER -> c

ToLower(cs) == [i \in 1..Len(cs) |-> LowerCase(cs[i])]

RegExpSpecial == {"."}

\* The keyword used as a pattern as it stands.
NotEscaped(cs) == cs

\* lodash escapeRegExp: every metacharacter gets a backslash.
Escaped(c) == IF c = "." THEN "\\." ELSE c
EscapeRegExp(cs) ==
    [i \in 1..Len(cs) |-> IF cs[i] \in RegExpSpecial THEN Escaped(cs[i]) ELSE cs[i]]

\* One pattern token against one character, under the 'i' flag.
TokenMatches(tok, c) ==
    CASE tok = "." -> TRUE
      [] tok = "\\." -> c = "."
      [] OTHER -> LowerCase(tok) = LowerCase(c)

\* RegExp(pattern, 'i').test(s): the pattern matches somewhere in s.
RegExpTest(pat, cs) ==
    \E off \in 0..(Len(cs) - Len(pat)) :
        \A i \in 1..Len(pat) : TokenMatches(pat[i], cs[off + i])

(***************************************************************************)
(* ObjectIds.  An id is a string of hex digits, all ids of one length; the *)
(* n-th id generated is IdOf(n).  Hex digits read the same in both cases.  *)
(***************************************************************************)
HexDigits == {"a", "b", "c", "d", "A", "B"}
IdDigits == <<"a", "b", "c", "d">>
IdOf(n) == <<IdDigits[n]>>

\* ObjectId.isValid(str), for the hex-string form of an id.
ObjectIdIsValid(v) ==
    /\ v.kind = "string"
    /\ Len(v.chars) = Len(IdOf(1))
    /\ \A i \in 1..Len(v.chars) : v.chars[i] \in HexDigits

\* Mongoose casts a condition on _id to an ObjectId.
CastForPath(key, v) ==
    IF key = <<"_id">> /\ v.kind = "string" THEN Str(ToLower(v.chars)) ELSE v

(***************************************************************************)
(* flattenQuery and isMongoOperator                                        *)
(***************************************************************************)
\* Some key of obj startsWith('$').
IsMongoOperator(obj) ==
    \E i \in 1..Len(obj.entries) : Head(obj.entries[i][1]) \in OperatorKeys

RECURSIVE FlattenQuery(_, _)
RECURSIVE FlattenEntries(_, _, _, _)

\* The for loop of flattenQuery: each pass replaces result by the
\* flattening of that entry, `result = { ...flattenQuery(value, [...path, key]) }`.
FlattenEntries(es, i, path, result) ==
    IF i > Len(es) THEN result
    ELSE FlattenEntries(es, i + 1, path,
                        ObjAssign(EmptyObj, FlattenQuery(es[i][2], path \o es[i][1])))

FlattenQuery(obj, path) ==
    IF ~Truthy(obj) THEN EmptyObj
    ELSE IF IsPlainObject(obj) /\ ~IsMongoOperator(obj)
         THEN FlattenEntries(obj.entries, 1, path, EmptyObj)
         ELSE ObjSet(EmptyObj, path, obj)

(***************************************************************************)
(* search: the query built from a request body                             *)
(***************************************************************************)
\* getKeywordFields: the keys of attributes whose field type is String.
GetKeywordFields(attrs) ==
    LET keep == SelectSeq(attrs, LAMBDA a : a[2] = "String")
    IN [i \in 1..Len(keep) |-> <<keep[i][1]>>]

\* The `or` list of the keyword branch.
KeywordOr(keyword, attrs) ==
    LET keywordFields == GetKeywordFields(attrs)
        reg == RegExpVal(EscapeRegExp(keyword.chars))
        byField == [i \in 1..Len(keywordFields) |->
                       Obj(<< <<keywordFields[i], reg>> >>)]
        byId == IF ObjectIdIsValid(keyword)
                THEN << Obj(<< <<(<<"_id">>), keyword>> >>) >>
                ELSE <<>>
    IN byField \o byId

QueryIds(query, body) ==
    IF IsArray(body.ids) /\ Len(body.ids.entries) > 0
    THEN ObjSet(query, <<"_id">>, Obj(<< <<(<<"$in">>), body.ids>> >>))
    ELSE query

QueryKeyword(query, body, attrs) ==
    IF Truthy(body.keyword) /\ Len(KeywordOr(body.keyword, attrs)) > 0
    THEN ObjSet(query, <<"$or">>, Arr(KeywordOr(body.keyword, attrs)))
    ELSE query

QueryDates(query, body) ==
    LET gte == IF Truthy(body.startAt)
               THEN ObjSet(EmptyObj, <<"$gte">>, body.startAt) ELSE EmptyObj
        range == IF Truthy(body.endAt)
                 THEN ObjSet(gte, <<"$lte">>, body.endAt) ELSE gte
    IN IF Truthy(body.startAt) \/ Truthy(body.endAt)
       THEN ObjSet(query, <<"createdAt">>, range)
       ELSE query

\* One pass of the loop over the remaining field filters.
QueryField(query, key, value) ==
    IF IsArray(value)
    THEN IF Len(value.entries) > 0
         THEN ObjSet(query, key, Obj(<< <<(<<"$in">>), value>> >>))
         ELSE query
    ELSE ObjAssign(query, FlattenQuery(value, key))

RECURSIVE QueryRest(_, _, _)
QueryRest(query, es, i) ==
    IF i > Len(es) THEN query
    ELSE QueryRest(QueryField(query, es[i][1], es[i][2]), es, i + 1)

BuildQuery(body, attrs) ==
    QueryRest(QueryDates(QueryKeyword(QueryIds(EmptyObj, body), body, attrs), body),
              body.rest.entries, 1)

(***************************************************************************)
(* The collection and how the store evaluates a filter                     *)
(***************************************************************************)
MaxDocs == 2

Times == {"t1"}

AllocatedIds == {IdOf(n) : n \in 1..nextId}

\* The values a document holds at a path (none when the field is absent).
FieldValues(id, doc, key) ==
    CASE key = <<"_id">> -> {Str(id)}
      [] key = <<"name">> -> {Str(doc.name)}
      [] key = <<"shop">> -> {Num(doc.shop)}
      [] key = <<"deletedAt">> -> {DateVal(t) : t \in doc.deletedAt}
      [] OTHER -> {}

\* One operator of an operator object against the values at a path.
OperatorHolds(values, key, op, arg) ==
    CASE op = <<"$exists">> -> (values # {}) = Truthy(arg)
      [] op = <<"$in">> -> \E v \in Items(arg) : CastForPath(key, v) \in values
      [] op = <<"$ne">> -> CastForPath(key, arg) \notin values
      [] OTHER -> FALSE

\* One condition {key: cond} of a filter.
ConditionHolds(values, key, cond) ==
    CASE cond.kind = "regex" ->
            \E v \in values : v.kind = "string" /\ RegExpTest(cond.chars, v.chars)
      [] cond.kind = "object" /\ IsMongoOperator(cond) ->
            \A i \in 1..Len(cond.entries) :
                OperatorHolds(values, key, cond.entries[i][1], cond.entries[i][2])
      [] cond.kind = "undefined" -> values = {}
      [] OTHER -> CastForPath(key, cond) \in values

RECURSIVE Matches(_, _, _)
Matches(id, doc, filter) ==
    \A i \in 1..Len(filter.entries) :
        LET key == filter.entries[i][1]
            cond == filter.entries[i][2]
        IN IF key = <<"$or">>
           THEN \E alt \in Items(cond) : Matches(id, doc, alt)
           ELSE ConditionHolds(FieldValues(id, doc, key), key, cond)

\* The documents of the collection a filter selects.
StoreFind(st, filter) == {id \in DOMAIN st : Matches(id, st[id], filter)}

(***************************************************************************)
(* Soft delete: the pre hook of find, count and exists, and the variants   *)
(***************************************************************************)
DeletedAtKey == <<"deletedAt">>
ExistsCond(l) == Obj(<< <<(<<"$exists">>), Bool(l)>> >>)

\* The hook without its else branch: nothing is injected.
PreFindNoDefault(filter) ==
    IF ObjGet(filter, DeletedAtKey) = Undefined
    THEN ObjDelete(filter, DeletedAtKey)
    ELSE filter

\* schema.pre(/^find|count|exists/): the filter the query goes on with.
PreFind(filter) ==
    IF ObjGet(filter, DeletedAtKey) = Undefined
    THEN IF ObjHas(filter, DeletedAtKey)
         THEN ObjDelete(filter, DeletedAtKey)
         ELSE ObjSet(filter, DeletedAtKey, ExistsCond("false"))
    ELSE filter

\* Model.find / countDocuments / exists / findOne: the documents the
\* hooked query runs over.
Find(st, filter) == StoreFind(st, PreFind(filter))
CountDocuments(st, filter) == Cardinality(Find(st, filter))
Exists(st, filter) == Find(st, filter) # {}
\* findOne answers one of the matching documents, or none (null).
FindOne(st, filter) ==
    IF Find(st, filter) = {} THEN {{}} ELSE {{id} : id \in Find(st, filter)}
IdFilter(id) == Obj(<< <<(<<"_id">>), Str(id)>> >>)
FindById(st, id) == FindOne(st, IdFilter(id))

\* A Deleted variant that passes the caller's filter on as it is.
DeletedFilterDropped(filter) == filter

\* { ...filter, deletedAt: { $exists: true } }
DeletedFilter(filter) == ObjSet(filter, DeletedAtKey, ExistsCond("true"))
\* { ...filter, deletedAt: undefined }
WithDeletedFilter(filter) == ObjSet(filter, DeletedAtKey, Undefined)

FindDeleted(st, filter) == Find(st, DeletedFilter(filter))
FindOneDeleted(st, filter) == FindOne(st, DeletedFilter(filter))
FindByIdDeleted(st, id) == FindOne(st, DeletedFilter(IdFilter(id)))
\* existsDeleted() takes no filter.
ExistsDeleted(st, filter) == Exists(st, DeletedFilter(EmptyObj))
CountDocumentsDeleted(st, filter) == CountDocuments(st, DeletedFilter(filter))

FindWithDeleted(st, filter) == Find(st, WithDeletedFilter(filter))
FindOneWithDeleted(st, filter) == FindOne(st, WithDeletedFilter(filter))
FindByIdWithDeleted(st, id) == FindOne(st, WithDeletedFilter(IdFilter(id)))
\* existsWithDeleted() takes no filter.
ExistsWithDeleted(st, filter) == Exists(st, WithDeletedFilter(EmptyObj))
CountDocumentsWithDeleted(st, filter) ==
    CountDocuments(st, WithDeletedFilter(filter))

(***************************************************************************)
(* Lifecycle: create, delete, restore, destroy                             *)
(***************************************************************************)
NoRead == [op |-> "none", filter |-> EmptyObj, ids |-> {}, n |-> 0, yes |-> FALSE]

NoCall == <<>>

NoSort == [field |-> <<>>, order |-> ""]
NoBody == [ids |-> Undefined, keyword |-> Undefined, startAt |-> Undefined,
           endAt |-> Undefined, sort |-> NoSort, skip |-> 0, limit |-> 0,
           rest |-> EmptyObj]

\* No search is pending and no answer of one is held.
SearchIdle ==
    /\ spc' = "idle"
    /\ sbody' = NoBody
    /\ squery' = EmptyObj
    /\ sdata' = <<>>
    /\ stotal' = 0
    /\ sfetched' = FALSE
    /\ scounted' = FALSE
    /\ dirty' = FALSE

\* What a write does to the client's calls: an answer is held only while the
\* collection is as it was read; a pending search goes on, and a write that
\* lands after one of its two reads and before the other is noted.
Written ==
    /\ rd' = NoRead
    /\ IF spc = "pending"
       THEN /\ dirty' = (dirty \/ (sfetched # scounted /\ store' # store))
            /\ UNCHANGED <<spc, sbody, squery, sdata, stotal, sfetched, scounted>>
       ELSE SearchIdle

\* Model.create(fields): a new document under a fresh id, not deleted.
Inserted(st, id, name, shop) ==
    [i \in DOMAIN st \cup {id} |->
        IF i = id THEN [name |-> name, shop |-> shop, deletedAt |-> {}] ELSE st[i]]

Create(names, shops) ==
    /\ nextId < MaxDocs
    /\ \E name \in names, shop \in shops :
           store' = Inserted(store, IdOf(nextId + 1), name, shop)
    /\ nextId' = nextId + 1
    /\ UNCHANGED <<attributes, models, call, outcome>>
    /\ Written

\* save() that loses the change.
SaveSkipped(st, id, value) == st

\* save() that inserts the document when it is no longer stored.
SaveUpsert(st, id, value) ==
    [i \in DOMAIN st \cup {id} |->
        IF i = id
        THEN [name |-> <<>>, shop |-> "0", deletedAt |-> value]
        ELSE st[i]]

\* doc.save() of a loaded document: an update of the stored document with
\* that id, which changes nothing when the document is no longer stored.
SaveDeletedAt(st, id, value) ==
    IF id \in DOMAIN st THEN [st EXCEPT ![id].deletedAt = value] ELSE st

\* doc.remove()
Removed(st, id) == [i \in DOMAIN st \ {id} |-> st[i]]

\* delete(): this.deletedAt = new Date(); this.save()
Delete(id) ==
    /\ \E t \in Times : store' = SaveDeletedAt(store, id, {t})
    /\ UNCHANGED <<nextId, attributes, models, call, outcome>>
    /\ Written

\* restore(): this.deletedAt = undefined; this.save()
Restore(id) ==
    /\ store' = SaveDeletedAt(store, id, {})
    /\ UNCHANGED <<nextId, attributes, models, call, outcome>>
    /\ Written

\* destroy(): this.remove()
Destroy(id) ==
    /\ store' = Removed(store, id)
    /\ UNCHANGED <<nextId, attributes, models, call, outcome>>
    /\ Written

(***************************************************************************)
(* The client's read calls.  Each records the call and its answer.         *)
(***************************************************************************)
Answered(op, filter, ids, n, yes) ==
    /\ spc = "idle"
    /\ rd = NoRead
    /\ rd' = [op |-> op, filter |-> filter, ids |-> ids, n |-> n, yes |-> yes]
    /\ SearchIdle
    /\ UNCHANGED <<store, nextId, attributes, models, call, outcome>>

DoFind(f) == Answered("find", f, Find(store, f), 0, FALSE)
DoFindOne(f) == \E r \in FindOne(store, f) : Answered("findOne", f, r, 0, FALSE)
DoFindById(id) ==
    \E r \in FindById(store, id) : Answered("findById", IdFilter(id), r, 0, FALSE)
DoExists(f) == Answered("exists", f, {}, 0, Exists(store, f))
DoCountDocuments(f) ==
    Answered("countDocuments", f, {}, CountDocuments(store, f), FALSE)

DoFindDeleted(f) == Answered("findDeleted", f, FindDeleted(store, f), 0, FALSE)
DoFindOneDeleted(f) ==
    \E r \in FindOneDeleted(store, f) : Answered("findOneDeleted", f, r, 0, FALSE)
DoFindByIdDeleted(id) ==
    \E r \in FindByIdDeleted(store, id) :
        Answered("findByIdDeleted", IdFilter(id), r, 0, FALSE)
DoExistsDeleted(f) ==
    Answered("existsDeleted", f, {}, 0, ExistsDeleted(store, f))
DoCountDocumentsDeleted(f) ==
    Answered("countDocumentsDeleted", f, {}, CountDocumentsDeleted(store, f), FALSE)

DoFindWithDeleted(f) ==
    Answered("findWithDeleted", f, FindWithDeleted(store, f), 0, FALSE)
DoFindOneWithDeleted(f) ==
    \E r \in FindOneWithDeleted(store, f) :
        Answered("findOneWithDeleted", f, r, 0, FALSE)
DoFindByIdWithDeleted(id) ==
    \E r \in FindByIdWithDeleted(store, id) :
        Answered("findByIdWithDeleted", IdFilter(id), r, 0, FALSE)
DoExistsWithDeleted(f) ==
    Answered("existsWithDeleted", f, {}, 0, ExistsWithDeleted(store, f))
DoCountDocumentsWithDeleted(f) ==
    Answered("countDocumentsWithDeleted", f, {},
             CountDocumentsWithDeleted(store, f), FALSE)

(***************************************************************************)
(* search: the page fetch and the count are two reads of the store,        *)
(* started together and awaited with Promise.all                           *)
(***************************************************************************)
NumberOf(l) ==
    CASE l = "0" -> 0
      [] l = "1" -> 1
      [] l = "2" -> 2
      [] OTHER -> 3

\* The value a document is sorted by.
SortValue(st, id, field) ==
    IF field = <<"shop">> THEN NumberOf(st[id].shop) ELSE 0

\* sort.order === 'desc' ? -1 : 1
SortDirection(sort) == IF sort.order = "desc" THEN 0 - 1 ELSE 1

Perms(S) ==
    {p \in [1..Cardinality(S) -> S] : \A i, j \in DOMAIN p : p[i] = p[j] => i = j}

\* The orders find(query).sort(sort && {...}) can answer in: any order of the
\* matching documents when there is no sort, and any order that agrees with
\* the sort otherwise (the order of equal keys is the store's).
SortedOrders(st, ids, sort) ==
    {p \in Perms(ids) :
        sort # NoSort =>
            \A i, j \in DOMAIN p :
                i < j => SortDirection(sort) * SortValue(st, p[i], sort.field)
                           <= SortDirection(sort) * SortValue(st, p[j], sort.field)}

\* A page that starts at the first document whatever skip is.
PageFromStart(order, skip, limit) ==
    SubSeq(order, 1, IF limit < Len(order) THEN limit ELSE Len(order))

\* .skip(skip).limit(limit)
Page(order, skip, limit) ==
    SubSeq(order, skip + 1, IF skip + limit < Len(order) THEN skip + limit ELSE Len(order))

SearchStart(bodies) ==
    /\ spc = "idle"
    /\ rd = NoRead
    /\ \E body \in bodies :
           /\ sbody' = body
           /\ squery' = BuildQuery(body, attributes)
    /\ spc' = "pending"
    /\ sdata' = <<>>
    /\ stotal' = 0
    /\ sfetched' = FALSE
    /\ scounted' = FALSE
    /\ dirty' = FALSE
    /\ rd' = NoRead
    /\ UNCHANGED <<store, nextId, attributes, models, call, outcome>>

\* Promise.all resolves when the second of the two reads resolves, and
\* search then returns { data, meta: { total, skip, limit } } without reading
\* anything more.
SearchFetch ==
    /\ spc = "pending"
    /\ ~sfetched
    /\ \E order \in SortedOrders(store, Find(store, squery), sbody.sort) :
           sdata' = Page(order, sbody.skip, sbody.limit)
    /\ sfetched' = TRUE
    /\ spc' = IF scounted THEN "done" ELSE "pending"
    /\ UNCHANGED <<store, nextId, attributes, models, call, outcome, rd, sbody, squery, stotal,
                   scounted, dirty>>

SearchCount ==
    /\ spc = "pending"
    /\ ~scounted
    /\ stotal' = CountDocuments(store, squery)
    /\ scounted' = TRUE
    /\ spc' = IF sfetched THEN "done" ELSE "pending"
    /\ UNCHANGED <<store, nextId, attributes, models, call, outcome, rd, sbody, squery, sdata,
                   sfetched, dirty>>

\* A failed search that hands over what had resolved before the failure.
SearchFailPartial ==
    /\ spc = "pending"
    /\ spc' = "failed"
    /\ UNCHANGED <<store, nextId, attributes, models, call, outcome, rd, sbody, squery, sdata,
                   stotal, sfetched, scounted, dirty>>

\* A read that has not resolved rejects: Promise.all rejects with its error
\* and search returns nothing.
SearchFail ==
    /\ spc = "pending"
    /\ spc' = "failed"
    /\ sdata' = <<>>
    /\ stotal' = 0
    /\ UNCHANGED <<store, nextId, attributes, models, call, outcome, rd, sbody, squery, sfetched,
                   scounted, dirty>>

\* The client is done with the answer it holds and is free to call again.
Drop ==
    /\ rd # NoRead \/ spc \in {"done", "failed"}
    /\ rd' = NoRead
    /\ SearchIdle
    /\ UNCHANGED <<store, nextId, attributes, models, call, outcome>>

(***************************************************************************)
(* Spec: one collection of a model with a String and a Number attribute,   *)
(* written by any client and read by one.                                  *)
(***************************************************************************)
ProductAttributes == << <<"name", "String">>, <<"shop", "Number">> >>

ShopKey == <<"shop">>
ShopFilters == {EmptyObj, Obj(<< <<ShopKey, Num("1")>> >>)}
DeletedAtConds == {Undefined, ExistsCond("true"), ExistsCond("false")}

\* The filters the client reads with: with and without a condition on a
\* field, with and without a deletedAt key, defined or undefined.
CallerFilters ==
    ShopFilters \cup {ObjSet(f, DeletedAtKey, c) : f \in ShopFilters, c \in DeletedAtConds}

Sorts == {NoSort, [field |-> ShopKey, order |-> "asc"], [field |-> ShopKey, order |-> "desc"]}

MaxSkip == 1
MaxLimit == 2

\* The bodies the client searches with.
SearchBodies ==
    {[NoBody EXCEPT !.rest = r, !.sort = s, !.skip = k, !.limit = l] :
        r \in {EmptyObj, Obj(<< <<ShopKey, Num("1")>> >>)},
        s \in Sorts, k \in 0..MaxSkip, l \in 1..MaxLimit}

\* The bodies of the plain listing calls: a page that holds every document.
BasicBodies ==
    {[NoBody EXCEPT !.rest = r, !.limit = MaxDocs + 1] : r \in ShopFilters}

Init ==
    /\ store = <<>>
    /\ nextId = 0
    /\ attributes = ProductAttributes
    /\ models = <<>>
    /\ rd = NoRead
    /\ spc = "idle"
    /\ sbody = NoBody
    /\ squery = EmptyObj
    /\ sdata = <<>>
    /\ stotal = 0
    /\ sfetched = FALSE
    /\ scounted = FALSE
    /\ dirty = FALSE
    /\ call = NoCall
    /\ outcome = NoCall

Next ==
    \/ Create({<<"a">>}, {"0", "1"})
    \/ \E id \in AllocatedIds : Delete(id)
    \/ \E id \in AllocatedIds : Restore(id)
    \/ \E id \in AllocatedIds : Destroy(id)
    \/ \E f \in CallerFilters : DoFind(f)
    \/ \E f \in CallerFilters : DoFindOne(f)
    \/ \E id \in AllocatedIds : DoFindById(id)
    \/ \E f \in CallerFilters : DoExists(f)
    \/ \E f \in CallerFilters : DoCountDocuments(f)
    \/ \E f \in CallerFilters : DoFindDeleted(f)
    \/ \E f \in CallerFilters : DoFindOneDeleted(f)
    \/ \E id \in AllocatedIds : DoFindByIdDeleted(id)
    \/ \E f \in CallerFilters : DoExistsDeleted(f)
    \/ \E f \in CallerFilters : DoCountDocumentsDeleted(f)
    \/ \E f \in CallerFilters : DoFindWithDeleted(f)
    \/ \E f \in CallerFilters : DoFindOneWithDeleted(f)
    \/ \E id \in AllocatedIds : DoFindByIdWithDeleted(id)
    \/ \E f \in CallerFilters : DoExistsWithDeleted(f)
    \/ \E f \in CallerFilters : DoCountDocumentsWithDeleted(f)
    \/ SearchStart(BasicBodies)
    \/ SearchFetch
    \/ SearchCount
    \/ SearchFail
    \/ Drop

Spec == Init /\ [][Next]_vars

(***************************************************************************)
(* SpecSearch: the same collection, searched with sort, skip and limit.    *)
(***************************************************************************)
NextSearch ==
    \/ Create({<<"a">>}, {"0", "1"})
    \/ \E id \in AllocatedIds : Delete(id)
    \/ \E id \in AllocatedIds : Restore(id)
    \/ \E id \in AllocatedIds : Destroy(id)
    \/ SearchStart(SearchBodies)
    \/ SearchFetch
    \/ SearchCount
    \/ SearchFail
    \/ Drop

SpecSearch == Init /\ [][NextSearch]_vars

(***************************************************************************)
(* Soft delete: what the reads answer                                      *)
(***************************************************************************)
Range(seq) == {seq[i] : i \in 1..Len(seq)}

SoftDeleted(id) == id \in DOMAIN store /\ store[id].deletedAt # {}
Active(id) == id \in DOMAIN store /\ store[id].deletedAt = {}
Destroyed(id) == id \in AllocatedIds /\ id \notin DOMAIN store

HasDeletedAtKey(filter) == ObjHas(filter, DeletedAtKey)

\* The caller's filter without its deletedAt key.
OwnConditions(filter) == ObjDelete(filter, DeletedAtKey)

\* The stored documents that satisfy a filter as the store reads it.
Satisfying(filter) == {id \in DOMAIN store : Matches(id, store[id], filter)}

\* The answer in rd is the answer of its operation over the documents `over`.
AnswerIsOver(over) ==
    /\ rd.op \in {"find", "findDeleted", "findWithDeleted"} => rd.ids = over
    /\ rd.op \in {"findOne", "findOneDeleted", "findOneWithDeleted", "findById",
                  "findByIdDeleted", "findByIdWithDeleted"} =>
           /\ rd.ids \subseteq over
           /\ Cardinality(rd.ids) <= 1
           /\ (rd.ids = {}) = (over = {})
    /\ rd.op \in {"exists", "existsDeleted", "existsWithDeleted"} =>
           rd.yes = (over # {})
    /\ rd.op \in {"countDocuments", "countDocumentsDeleted",
                  "countDocumentsWithDeleted"} => rd.n = Cardinality(over)

DefaultReads == {"find", "findOne", "countDocuments", "exists"}
DeletedReads == {"findDeleted", "findOneDeleted", "findByIdDeleted",
                 "existsDeleted", "countDocumentsDeleted"}
WithDeletedReads == {"findWithDeleted", "findOneWithDeleted", "findByIdWithDeleted",
                     "existsWithDeleted", "countDocumentsWithDeleted"}

\* C1: a default read (find, findOne, countDocuments, exists) whose filter has
\* no deletedAt key runs with { deletedAt: { $exists: false } } added to the
\* filter and so answers over the matching documents that are not soft-deleted
\* only; a filter with a defined deletedAt condition runs as it was given.
C1_DefaultReadsExcludeDeleted ==
    rd.op \in DefaultReads =>
        /\ ~HasDeletedAtKey(rd.filter) =>
               /\ PreFind(rd.filter)
                      = ObjSet(rd.filter, DeletedAtKey, ExistsCond("false"))
               /\ \A id \in rd.ids : ~SoftDeleted(id)
               /\ AnswerIsOver({id \in Satisfying(rd.filter) : ~SoftDeleted(id)})
        /\ ObjGet(rd.filter, DeletedAtKey) # Undefined =>
               /\ PreFind(rd.filter) = rd.filter
               /\ AnswerIsOver(Satisfying(rd.filter))

\* A find without a deletedAt key has answered some documents and left out a
\* soft-deleted one that satisfies the filter.
C1_Witness ==
    /\ rd.op = "find"
    /\ ~HasDeletedAtKey(rd.filter)
    /\ rd.ids # {}
    /\ \E id \in Satisfying(rd.filter) : SoftDeleted(id)

\* C2: each Deleted variant answers over exactly the documents that satisfy
\* the caller's own conditions and have deletedAt set, each WithDeleted variant
\* over exactly those that satisfy them, deleted or not; a deletedAt condition
\* of the caller is overridden.
C2_VariantsOverCallerFilter ==
    /\ rd.op \in DeletedReads =>
           AnswerIsOver({id \in Satisfying(OwnConditions(rd.filter)) : SoftDeleted(id)})
    /\ rd.op \in WithDeletedReads =>
           AnswerIsOver(Satisfying(OwnConditions(rd.filter)))

\* C3: delete() of an active document leaves it with deletedAt set, and it is
\* then answered by findByIdDeleted and by no default find or search;
\* restore() of a deleted document leaves it without deletedAt, and it is then
\* answered again by the default find and search it satisfies.
C3_ReadsFollowDeletedAt ==
    \A id \in DOMAIN store :
        /\ SoftDeleted(id) =>
               /\ rd.op = "findByIdDeleted" /\ rd.filter = IdFilter(id) => rd.ids = {id}
               /\ rd.op = "find" /\ ~HasDeletedAtKey(rd.filter) => id \notin rd.ids
               /\ spc = "done" /\ ~dirty => id \notin Range(sdata)
        /\ Active(id) =>
               /\ rd.op = "find" /\ ~HasDeletedAtKey(rd.filter)
                    /\ Matches(id, store[id], rd.filter) => id \in rd.ids
               /\ spc = "done" /\ ~dirty /\ Matches(id, store[id], sbody.rest) =>
                      id \in Range(sdata)

C3_LifecycleSteps ==
    \A id \in AllocatedIds :
        /\ Active(id) /\ Delete(id) => SoftDeleted(id)'
        /\ SoftDeleted(id) /\ Restore(id) => Active(id)'

C3_DeleteThenRestore == []C3_ReadsFollowDeletedAt /\ [][C3_LifecycleSteps]_vars

\* A deleted document has been looked up with findByIdDeleted and answered.
C3_Witness ==
    \E id \in DOMAIN store :
        /\ SoftDeleted(id)
        /\ rd.op = "findByIdDeleted"
        /\ rd.ids = {id}

\* C4: destroy() removes the document from the store for good: it stays
\* removed through every later delete() and restore(), and no read that
\* answers after the destroy answers it.
C4_DestroyedStep ==
    \A id \in AllocatedIds :
        /\ Destroy(id) => Destroyed(id)'
        /\ Destroyed(id) =>
               /\ Destroyed(id)'
               /\ rd' # rd => id \notin rd'.ids
               /\ sdata' # sdata => id \notin Range(sdata')

C4_DestroyIsTerminal == [][C4_DestroyedStep]_vars

\* A read over deleted and active documents alike has answered after a destroy.
C4_Witness ==
    /\ \E id \in AllocatedIds : Destroyed(id)
    /\ rd.op = "findWithDeleted"
    /\ rd.ids # {}

(***************************************************************************)
(* search: total and page                                                  *)
(***************************************************************************)
\* The body without its sort, skip and limit.
FilterOnly(body) == [body EXCEPT !.sort = NoSort, !.skip = 0, !.limit = 0]

\* The documents a search is about: not soft-deleted and matching its query.
SearchMatching == {id \in DOMAIN store : ~SoftDeleted(id) /\ Matches(id, store[id], squery)}

\* a comes no later than b in the requested order.
NotAfter(a, b) ==
    \/ sbody.sort = NoSort
    \/ sbody.sort.order = "desc"
         /\ SortValue(store, a, sbody.sort.field) >= SortValue(store, b, sbody.sort.field)
    \/ sbody.sort.order # "desc"
         /\ SortValue(store, a, sbody.sort.field) <= SortValue(store, b, sbody.sort.field)

\* data is the part of the matching documents, laid out in the requested
\* order, that follows the first `skip` of them and is at most `limit` long.
IsWindow(data, matching, skip, limit) ==
    /\ Range(data) \subseteq matching
    /\ \A i, j \in 1..Len(data) : (i < j => NotAfter(data[i], data[j])) /\ (data[i] = data[j] => i = j)
    /\ \E skipped \in SUBSET (matching \ Range(data)) :
           LET after == matching \ (Range(data) \cup skipped)
               left == Cardinality(matching) - Cardinality(skipped)
           IN /\ Cardinality(skipped)
                    = (IF skip < Cardinality(matching) THEN skip ELSE Cardinality(matching))
              /\ Len(data) = (IF limit < left THEN limit ELSE left)
              /\ \A a \in skipped, b \in Range(data) \cup after : NotAfter(a, b)
              /\ \A a \in Range(data), b \in after : NotAfter(a, b)

\* C8: a search that no write ran into returns as total the number of
\* matching documents that are not soft-deleted, whatever sort, skip and limit
\* are, and as data the window of at most limit of them that starts at offset
\* skip of the requested order; sort, skip and limit are no part of the query.
C8_TotalAndWindow ==
    spc = "done" /\ ~dirty =>
        /\ squery = BuildQuery(FilterOnly(sbody), attributes)
        /\ stotal = Cardinality(SearchMatching)
        /\ IsWindow(sdata, SearchMatching, sbody.skip, sbody.limit)

\* A search sorted downwards has skipped the greater of two matching
\* documents and returned the other.
C8_Witness ==
    /\ spc = "done"
    /\ ~dirty
    /\ sbody.sort.order = "desc"
    /\ sbody.skip = 1
    /\ stotal = 2
    /\ Len(sdata) = 1
    /\ \E a \in SearchMatching : SortValue(store, a, ShopKey) > SortValue(store, sdata[1], ShopKey)

(***************************************************************************)
(* SpecKeyword: keyword search over a model with a String attribute and    *)
(* over a model without one.                                               *)
(***************************************************************************)
NoStringAttributes == << <<"shop", "Number">> >>

\* Names with a letter of either case and with the metacharacter.
KeywordNames == {<<"a", "B">>, <<".">>, <<"b">>}

\* Keywords: hex digits of either case (valid ids), the metacharacter and a
\* two-letter word (not valid ids).
Keywords == {<<"a">>, <<"A">>, <<"b">>, <<".">>, <<"b", "a">>, <<"A", "b">>}

KeywordBodies ==
    {[NoBody EXCEPT !.keyword = Str(k), !.limit = MaxDocs + 1] : k \in Keywords}

InitKeyword ==
    /\ store = <<>>
    /\ nextId = 0
    /\ attributes \in {ProductAttributes, NoStringAttributes}
    /\ models = <<>>
    /\ rd = NoRead
    /\ spc = "idle"
    /\ sbody = NoBody
    /\ squery = EmptyObj
    /\ sdata = <<>>
    /\ stotal = 0
    /\ sfetched = FALSE
    /\ scounted = FALSE
    /\ dirty = FALSE
    /\ call = NoCall
    /\ outcome = NoCall

NextKeyword ==
    \/ Create(IF GetKeywordFields(attributes) = <<>> THEN {<<>>} ELSE KeywordNames, {"1"})
    \/ \E id \in AllocatedIds : Delete(id)
    \/ SearchStart(KeywordBodies)
    \/ SearchFetch
    \/ SearchCount
    \/ SearchFail
    \/ Drop

SpecKeyword == InitKeyword /\ [][NextKeyword]_vars

\* cs contains k as a substring, letter case aside.
ContainsIgnoringCase(cs, k) ==
    \E off \in 0..(Len(cs) - Len(k)) :
        \A i \in 1..Len(k) : LowerCase(cs[off + i]) = LowerCase(k[i])

\* The model's String-typed fields (name is the only candidate).
StringFields == {a \in Range(attributes) : a[2] = "String"}

\* The keyword is a valid id and names this document.
IsIdOf(keyword, id) == ObjectIdIsValid(keyword) /\ ToLower(keyword.chars) = id

\* C7: a search with a keyword returns exactly the non-deleted documents in
\* which a String-typed field contains the keyword as a literal substring,
\* letter case aside, or whose id the keyword is when it is a valid id; with
\* no String-typed field and a keyword that is no valid id the keyword is no
\* constraint at all and the search returns every non-deleted document.
C7_KeywordMatches ==
    spc = "done" /\ ~dirty /\ Truthy(sbody.keyword) =>
        LET keyword == sbody.keyword
            hit(id) == \/ StringFields # {}
                            /\ ContainsIgnoringCase(store[id].name, keyword.chars)
                       \/ IsIdOf(keyword, id)
            expected == IF StringFields = {} /\ ~ObjectIdIsValid(keyword)
                        THEN {id \in DOMAIN store : ~SoftDeleted(id)}
                        ELSE {id \in DOMAIN store : ~SoftDeleted(id) /\ hit(id)}
        IN /\ Range(sdata) = expected
           /\ stotal = Cardinality(expected)

\* The metacharacter was searched for: the document named with it is
\* returned and a document with another name is not.
C7_Witness ==
    /\ spc = "done"
    /\ ~dirty
    /\ sbody.keyword = Str(<<".">>)
    /\ Len(sdata) = 1
    /\ store[sdata[1]].name = <<".">>
    /\ \E id \in DOMAIN store : ~SoftDeleted(id) /\ store[id].name # <<".">>

(***************************************************************************)
(* SpecQuery: search with field filters of every shape: scalars, lists,    *)
(* nested mappings and operator mappings.                                  *)
(***************************************************************************)
Entry(k, v) == <<(<<k>>), v>>

FilterScalars ==
    {Num("0"), Num("1"), Bool("false"), Bool("true"), Str(<<>>), Str(<<"a">>)}

FilterLists == {Arr(<<>>), Arr(<<Num("1")>>), Arr(<<Num("0"), Num("1")>>)}

MappingLeaves == {Num("1"), Num("2")}

OperatorMapping == Obj(<<Entry("$ne", Num("1"))>>)

\* The mappings with one or two of the keys a and b, in either order, whose
\* values are drawn from `values`.
MappingsOver(values) ==
    {Obj(<<Entry(k, v)>>) : k \in {"a", "b"}, v \in values}
        \cup {Obj(<<Entry(k[1], v), Entry(k[2], w)>>) :
                 k \in {<<"a", "b">>, <<"b", "a">>}, v \in values, w \in values}

FlatMappings == MappingsOver(MappingLeaves)
NestedMappings == MappingsOver(MappingLeaves \cup {OperatorMapping} \cup FlatMappings)

\* One field filter per body: a scalar or a list on a field of the model, or
\* a mapping on a nested field.
FilterBodies ==
    {[NoBody EXCEPT !.rest = Obj(<<Entry(k, v)>>), !.limit = MaxDocs + 1] :
        k \in {"shop", "name", "active"}, v \in FilterScalars \cup FilterLists}
      \cup {[NoBody EXCEPT !.rest = Obj(<<Entry("profile", v)>>), !.limit = MaxDocs + 1] :
               v \in NestedMappings \cup {OperatorMapping}}

NextQuery ==
    \/ Create({<<"a">>}, {"0", "1"})
    \/ SearchStart(FilterBodies)
    \/ SearchFetch
    \/ SearchCount
    \/ SearchFail
    \/ Drop

SpecQuery == Init /\ [][NextQuery]_vars

\* The leaves of a filter value with their paths: a plain mapping is gone
\* into, an operator mapping and anything else is a leaf at its path.
RECURSIVE LeavesOf(_, _)
LeavesOf(v, path) ==
    IF v.kind = "object" /\ ~(\E i \in 1..Len(v.entries) : Head(v.entries[i][1]) \in OperatorKeys)
    THEN UNION {LeavesOf(v.entries[i][2], path \o v.entries[i][1]) : i \in 1..Len(v.entries)}
    ELSE {<<path, v>>}

IsScalar(v) == v.kind \in {"number", "boolean", "string"}

\* C5: the query built for a field filter that is a plain mapping holds, for
\* every leaf of the mapping, the leaf's value at the leaf's dot path; a
\* mapping with an operator key is such a leaf, kept whole.
C5_EveryLeafConstrained ==
    spc # "idle" =>
        \A i \in 1..Len(sbody.rest.entries) :
            LET key == sbody.rest.entries[i][1]
                value == sbody.rest.entries[i][2]
            IN value.kind = "object" =>
                   \A leaf \in LeavesOf(value, key) : ObjGet(squery, leaf[1]) = leaf[2]

\* C6: a field filter with a scalar value v, whatever scalar, puts the
\* condition field = v in the query and every returned document has that
\* value; a non-empty list puts { $in: list } and every returned document has
\* one of its values; an empty list puts no condition.
C6_ScalarAndListFilters ==
    spc = "done" /\ ~dirty =>
        \A i \in 1..Len(sbody.rest.entries) :
            LET key == sbody.rest.entries[i][1]
                value == sbody.rest.entries[i][2]
            IN /\ IsScalar(value) =>
                      /\ ObjGet(squery, key) = value
                      /\ \A id \in Range(sdata) : value \in FieldValues(id, store[id], key)
               /\ value.kind = "array" /\ Len(value.entries) > 0 =>
                      /\ ObjGet(squery, key) = Obj(<<Entry("$in", value)>>)
                      /\ \A id \in Range(sdata) :
                             FieldValues(id, store[id], key) \cap Items(value) # {}
               /\ value.kind = "array" /\ Len(value.entries) = 0 => ~ObjHas(squery, key)

(***************************************************************************)
(* Serialization: transformField, isAllowedField, resolveSchema            *)
(***************************************************************************)
\* A word (a scope, a type name, 'all') as a string value.
Word(w) == Str(<<w>>)
\* A Mongoose schema type, such as mongoose.Schema.Types.String.
SchemaType(name) == JsVal("function", name, <<>>, <<>>)

\* The keys of the model that start with the private prefix "_".
PrivateKeys == {"_id", "_secret"}

\* Array.isArray(schema) ? schema[0] : schema
ResolveSchema(schema) ==
    IF IsArray(schema) THEN ObjGet(schema, <<"0">>) ELSE schema

IsAllowedField(schema, scopes) ==
    LET resolved == IF Truthy(ResolveSchema(schema)) THEN ResolveSchema(schema) ELSE EmptyObj
        readScopes == IF ObjGet(resolved, <<"readScopes">>) = Undefined
                      THEN Word("all")
                      ELSE ObjGet(resolved, <<"readScopes">>)
    IN IF readScopes = Word("all") THEN TRUE
       ELSE IF IsArray(readScopes)
            THEN \E scope \in Items(readScopes) : scope \in scopes
            ELSE FALSE

\* typeof obj === 'object' of a value that is not null
IsObjectValue(v) == v.kind \in {"object", "array", "date", "regex"}

RECURSIVE TransformField(_, _, _)
RECURSIVE TransformEntries(_, _, _, _)

\* The for loop over Object.entries(obj): the entries that are left.
TransformEntries(es, i, schema, scopes) ==
    IF i > Len(es) THEN <<>>
    ELSE LET key == es[i][1]
             val == es[i][2]
             tail == TransformEntries(es, i + 1, schema, scopes)
         IN IF Head(key) \in PrivateKeys \/ ~IsAllowedField(ObjGet(schema, key), scopes)
            THEN tail
            ELSE IF Truthy(ObjGet(schema, key))
                 THEN <<(<<key, TransformField(val, ObjGet(schema, key), scopes)>>)>> \o tail
                 ELSE <<(<<key, val>>)>> \o tail

\* transformField(obj, schema, options): obj as it is left.
TransformField(obj, schema, scopes) ==
    IF IsArray(obj)
    THEN [obj EXCEPT !.entries =
             [i \in 1..Len(obj.entries) |->
                 <<obj.entries[i][1],
                   TransformField(obj.entries[i][2], ResolveSchema(schema), scopes)>>]]
    ELSE IF IsObjectValue(obj)
         THEN [obj EXCEPT !.entries = TransformEntries(obj.entries, 1, schema, scopes)]
         ELSE obj

(***************************************************************************)
(* SpecSerialize: documents of several schemas serialized for several      *)
(* callers.                                                                *)
(***************************************************************************)
PublicField == Obj(<<Entry("type", SchemaType("String"))>>)
AdminField ==
    Obj(<<Entry("type", SchemaType("String")), Entry("readScopes", Arr(<<Word("admin")>>))>>)
NoneField ==
    Obj(<<Entry("type", SchemaType("String")), Entry("readScopes", Word("none"))>>)
MixedField == Obj(<<Entry("type", SchemaType("Mixed"))>>)

NameAndToken == Obj(<<Entry("name", PublicField), Entry("token", AdminField)>>)

\* schema.obj of the models serialized.
Schemas ==
    {NameAndToken,
     Obj(<<Entry("name", PublicField), Entry("token", NoneField)>>),
     Obj(<<Entry("profile", NameAndToken)>>),
     Obj(<<Entry("items", Arr(<<NameAndToken>>))>>),
     Obj(<<Entry("tokens", Arr(<<AdminField>>))>>),
     Obj(<<Entry("name", SchemaType("String")), Entry("_secret", PublicField)>>),
     Obj(<<Entry("meta", MixedField)>>)}

Texts == {Word("x"), Word("y")}

\* What a Mixed field can hold: any JSON the client stored.
MixedValues ==
    {Word("x"),
     Obj(<<Entry("a", Word("x"))>>),
     Obj(<<Entry("_secret", Word("x"))>>),
     Obj(<<Entry("a", Obj(<<Entry("a", Word("x"))>>))>>),
     Obj(<<Entry("a", Obj(<<Entry("_secret", Word("x"))>>))>>),
     Arr(<<Obj(<<Entry("_secret", Word("x"))>>)>>)}

IsDescriptor(schema) ==
    schema.kind = "object" /\ ObjGet(schema, <<"type">>).kind = "function"

RECURSIVE ValuesOf(_)
RECURSIVE ObjectsOf(_, _)

\* The entry lists of the objects of a nested schema, from its i-th field on.
ObjectsOf(schema, i) ==
    IF i > Len(schema.entries) THEN {<<>>}
    ELSE {<<(<<schema.entries[i][1], v>>)>> \o rest :
             v \in ValuesOf(schema.entries[i][2]), rest \in ObjectsOf(schema, i + 1)}

\* The values a field of a schema can hold.  An object that is an element of
\* an array is a subdocument and carries its own _id.
ValuesOf(schema) ==
    IF schema.kind = "function" THEN Texts
    ELSE IF IsDescriptor(schema)
         THEN IF ObjGet(schema, <<"type">>) = SchemaType("Mixed") THEN MixedValues ELSE Texts
         ELSE IF IsArray(schema)
              THEN LET els == IF ResolveSchema(schema).kind = "object"
                                   /\ ~IsDescriptor(ResolveSchema(schema))
                              THEN {Obj(<<Entry("_id", Word("i"))>> \o es) :
                                       es \in ObjectsOf(ResolveSchema(schema), 1)}
                              ELSE ValuesOf(ResolveSchema(schema))
                   IN {Arr(<<>>)} \cup {Arr(<<v>>) : v \in els}
                         \cup {Arr(<<v, w>>) : v \in els, w \in els}
              ELSE {Obj(es) : es \in ObjectsOf(schema, 1)}

\* The documents of a schema as toJSON hands them to the transform.
DocumentsOf(schema) ==
    {Obj(<<Entry("_id", Word("i"))>> \o es) : es \in ObjectsOf(schema, 1)}

ScopeSets == {{}, {Word("admin")}, {Word("user")}}

InitSerialize ==
    /\ store = <<>>
    /\ nextId = 0
    /\ attributes = ProductAttributes
    /\ models = <<>>
    /\ rd = NoRead
    /\ spc = "idle"
    /\ sbody = NoBody
    /\ squery = EmptyObj
    /\ sdata = <<>>
    /\ stotal = 0
    /\ sfetched = FALSE
    /\ scounted = FALSE
    /\ dirty = FALSE
    /\ \E s \in Schemas :
           call \in {[schema |-> s, doc |-> d, scopes |-> sc] :
                        d \in DocumentsOf(s), sc \in ScopeSets}
    /\ outcome = NoCall

\* doc.toJSON(options): serializeOptions.transform
ToJSON ==
    /\ outcome = NoCall
    /\ outcome' = TransformField(call.doc, call.schema, call.scopes)
    /\ UNCHANGED <<store, nextId, attributes, models, rd, spc, sbody, squery, sdata, stotal,
                   sfetched, scounted, dirty, call>>

NextSerialize == ToJSON

SpecSerialize == InitSerialize /\ [][NextSerialize]_vars

\* The schema of the elements of an array field, or the schema itself.
ElementSchema(schema) == IF schema.kind = "array" THEN schema.entries[1][2] ELSE schema

\* The field's schema declares readScopes other than 'all' that share no
\* member with the caller's scopes.
HiddenFromCaller(schema, scopes) ==
    LET declared == ObjGet(ElementSchema(schema), <<"readScopes">>)
    IN /\ ElementSchema(schema).kind = "object"
       /\ declared # Undefined
       /\ declared # Word("all")
       /\ declared.kind = "array" => Items(declared) \cap scopes = {}

RECURSIVE NoHiddenField(_, _, _)
\* No field of the value, at any depth, is one the caller has no scope for.
NoHiddenField(v, schema, scopes) ==
    IF v.kind = "array"
    THEN \A i \in 1..Len(v.entries) :
             NoHiddenField(v.entries[i][2], ElementSchema(schema), scopes)
    ELSE v.kind = "object" =>
             \A i \in 1..Len(v.entries) :
                 LET field == IF schema.kind = "object"
                              THEN ObjGet(schema, v.entries[i][1]) ELSE Undefined
                 IN field # Undefined =>
                        /\ ~HiddenFromCaller(field, scopes)
                        /\ NoHiddenField(v.entries[i][2], field, scopes)

RECURSIVE NoPrivateField(_)
\* No field of the value, at any depth, has a name with the private prefix.
NoPrivateField(v) ==
    IF v.kind = "array"
    THEN \A i \in 1..Len(v.entries) : NoPrivateField(v.entries[i][2])
    ELSE v.kind = "object" =>
             \A i \in 1..Len(v.entries) :
                 /\ Head(v.entries[i][1]) \notin PrivateKeys
                 /\ NoPrivateField(v.entries[i][2])

RECURSIVE SameButHidden(_, _, _, _)
\* Two values differ at most in fields hidden from the caller or private.
SameButHidden(v, w, schema, scopes) ==
    IF v.kind \in {"array", "object"}
    THEN /\ w.kind = v.kind
         /\ Len(w.entries) = Len(v.entries)
         /\ \A i \in 1..Len(v.entries) :
                LET key == v.entries[i][1]
                    field == IF v.kind = "array" THEN ElementSchema(schema)
                             ELSE IF schema.kind = "object" THEN ObjGet(schema, key)
                             ELSE Undefined
                IN /\ w.entries[i][1] = key
                   /\ \/ v.kind = "object" /\ Head(key) \in PrivateKeys
                      \/ v.kind = "object" /\ field # Undefined /\ HiddenFromCaller(field, scopes)
                      \/ SameButHidden(v.entries[i][2], w.entries[i][2], field, scopes)
    ELSE w = v

Serialized == outcome # NoCall

\* The scope half of C9: no field hidden from the caller is in the output, at
\* any depth, and documents that differ only in hidden or private fields
\* serialize alike.
ScopedFieldsRedacted ==
    Serialized =>
        /\ NoHiddenField(outcome, call.schema, call.scopes)
        /\ \A other \in DocumentsOf(call.schema) :
               SameButHidden(call.doc, other, call.schema, call.scopes) =>
                   TransformField(other, call.schema, call.scopes) = outcome

\* C9: the serialized output holds, at no depth, a field the caller has no
\* scope for nor a field with the private prefix, and a caller gets the same
\* output for two documents that differ only in such fields.
C9_NoHiddenOrPrivateField ==
    Serialized =>
        /\ NoHiddenField(outcome, call.schema, call.scopes)
        /\ NoPrivateField(outcome)
        /\ \A other \in DocumentsOf(call.schema) :
               SameButHidden(call.doc, other, call.schema, call.scopes) =>
                   TransformField(other, call.schema, call.scopes) = outcome

(***************************************************************************)
(* The attribute compiler: attributesToDefinition and getMongooseType      *)
(***************************************************************************)
\* The names of mongoose.Schema.Types.
MongooseTypes == {"String", "Number", "Boolean", "Date", "ObjectId", "Mixed"}

\* What a compilation comes to: the definition, or the error thrown, with the
\* path or the type name its message gives.
Compiled(value) == [error |-> "", path |-> <<>>, str |-> "", value |-> value]
RefError(path) == [error |-> "Ref must be passed for", path |-> path, str |-> "", value |-> Undefined]
TypeError(str) ==
    [error |-> "could not be converted to Mongoose type", path |-> <<>>, str |-> str,
     value |-> Undefined]

Threw(r) == r.error # ""

\* getMongooseType(str, attributes, path)
GetMongooseType(str, attrs, path) ==
    IF Head(str.chars) \notin MongooseTypes THEN TypeError(Head(str.chars))
    ELSE IF Head(str.chars) = "ObjectId" /\ ~Truthy(ObjGet(attrs, <<"ref">>))
         THEN RefError(path)
         ELSE Compiled(SchemaType(Head(str.chars)))

FirstLetter(w) ==
    CASE w = "ObjectId" -> "O"
      [] w = "String" -> "S"
      [] OTHER -> "U"

\* Object.entries(attributes): of a string, its characters by index (the
\* first is all the loop gets to see).
EntriesOf(attrs) ==
    IF attrs.kind = "string"
    THEN <<Entry("0", Word(FirstLetter(Head(attrs.chars))))>>
    ELSE attrs.entries

\* !!type && typeof type !== 'object'
IsSchemaType(attrs) ==
    LET type == IF attrs.kind = "object" THEN ObjGet(attrs, <<"type">>) ELSE Undefined
    IN Truthy(type) /\ ~IsObjectValue(type)

RECURSIVE AttributesToDefinition(_, _)
RECURSIVE DefineEntries(_, _, _, _, _)
RECURSIVE DefineElements(_, _, _, _)

\* val.map((el, i) => attributesToDefinition(el, [...path, i]))
DefineElements(els, i, path, done) ==
    IF i > Len(els) THEN Compiled(Arr(done))
    ELSE LET el == AttributesToDefinition(els[i][2], path \o els[i][1])
         IN IF Threw(el) THEN el
            ELSE DefineElements(els, i + 1, path, Append(done, el.value))

\* The for loop of attributesToDefinition from the i-th entry on, with the
\* definition built so far.
DefineEntries(attrs, es, i, path, definition) ==
    IF i > Len(es) THEN Compiled(definition)
    ELSE LET key == es[i][1]
             val == es[i][2]
             new == IF IsSchemaType(attrs)
                    THEN IF key = <<"type">> /\ val.kind = "string"
                         THEN GetMongooseType(val, attrs, path)
                         ELSE Compiled(val)
                    ELSE IF key # <<"readScopes">>
                         THEN IF IsArray(val)
                              THEN DefineElements(val.entries, 1, path, <<>>)
                              ELSE IF IsPlainObject(val)
                                   THEN AttributesToDefinition(val, path \o key)
                                   ELSE IF val.kind = "string"
                                        THEN GetMongooseType(val, attrs, path)
                                        ELSE Compiled(val)
                         ELSE Compiled(val)
         IN IF Threw(new) THEN new
            ELSE DefineEntries(attrs, es, i + 1, path, ObjSet(definition, key, new.value))

AttributesToDefinition(attrs, path) ==
    DefineEntries(attrs, EntriesOf(attrs), 1, path, EmptyObj)

(***************************************************************************)
(* SpecCompile: attribute trees with one field of each form at each place. *)
(***************************************************************************)
ObjectIdDescriptor == Obj(<<Entry("type", Word("ObjectId"))>>)
ObjectIdWithRef == Obj(<<Entry("type", Word("ObjectId")), Entry("ref", Word("User"))>>)
RequiredObjectId ==
    Obj(<<Entry("required", Bool("true")), Entry("type", Word("ObjectId"))>>)
StringDescriptor == Obj(<<Entry("type", Word("String"))>>)

\* A field as the attributes declare it: a descriptor or a bare type name.
FieldForms ==
    {ObjectIdDescriptor, RequiredObjectId, Word("ObjectId"), ObjectIdWithRef,
     StringDescriptor, Word("String")}

\* The field under key k alone, after a sibling, before a sibling, and
\* before a sibling that is itself named ref.
Siblings(k, f) ==
    {Obj(<<Entry(k, f)>>),
     Obj(<<Entry("name", Word("String")), Entry(k, f)>>),
     Obj(<<Entry(k, f), Entry("name", StringDescriptor)>>),
     Obj(<<Entry(k, f), Entry("ref", Word("String"))>>)}

\* The attribute trees with the field at the top, in a nested object, in an
\* object nested twice, as an array element and as an element of an array in
\* a nested object.
AttributeTrees ==
    UNION {Siblings(k, f) \cup Siblings(k, Arr(<<f>>))
             \cup {Obj(<<Entry("profile", m)>>) : m \in Siblings(k, f) \cup Siblings(k, Arr(<<f>>))}
             \cup {Obj(<<Entry("profile", Obj(<<Entry("address", m)>>))>>) : m \in Siblings(k, f)} :
           k \in {"user", "owner"}, f \in FieldForms}

InitCompile ==
    /\ store = <<>>
    /\ nextId = 0
    /\ attributes = ProductAttributes
    /\ models = <<>>
    /\ rd = NoRead
    /\ spc = "idle"
    /\ sbody = NoBody
    /\ squery = EmptyObj
    /\ sdata = <<>>
    /\ stotal = 0
    /\ sfetched = FALSE
    /\ scounted = FALSE
    /\ dirty = FALSE
    /\ call \in {[attributes |-> t] : t \in AttributeTrees}
    /\ outcome = NoCall

\* createSchema(attributes): const definition = attributesToDefinition(attributes)
CreateSchema ==
    /\ outcome = NoCall
    /\ outcome' = AttributesToDefinition(call.attributes, <<>>)
    /\ UNCHANGED <<store, nextId, attributes, models, rd, spc, sbody, squery, sdata, stotal,
                   sfetched, scounted, dirty, call>>

NextCompile == CreateSchema

SpecCompile == InitCompile /\ [][NextCompile]_vars

\* A field declared as a reference without ref: the bare type name, or a
\* descriptor whose type is ObjectId and that has no ref.
IsRefLess(f) ==
    \/ f = Word("ObjectId")
    \/ /\ f.kind = "object"
       /\ ObjGet(f, <<"type">>) = Word("ObjectId")
       /\ ~ObjHas(f, <<"ref">>)

IsDeclaration(f) ==
    f.kind = "string" \/ (f.kind = "object" /\ ObjGet(f, <<"type">>).kind = "string")

RECURSIVE RefLessPaths(_, _)
\* The paths from the root, keys joined by dots, of the reference fields
\* without ref in a tree; an array element is named by the array's path, with
\* or without its index.
RefLessPaths(tree, path) ==
    UNION {LET key == tree.entries[i][1]
               f == tree.entries[i][2]
           IN IF IsDeclaration(f)
              THEN IF IsRefLess(f) THEN {path \o key} ELSE {}
              ELSE IF f.kind = "array"
                   THEN UNION {IF IsRefLess(f.entries[j][2])
                               THEN {path \o key, path \o key \o f.entries[j][1]}
                               ELSE {} : j \in 1..Len(f.entries)}
                   ELSE RefLessPaths(f, path \o key) :
           i \in 1..Len(tree.entries)}

\* C10: compiling a tree with a reference field without ref fails, wherever
\* the field is and however it is declared, and the error names the field's
\* path from the root.
C10_MissingRefNamesPath ==
    outcome # NoCall /\ RefLessPaths(call.attributes, <<>>) # {} =>
        /\ outcome.error = "Ref must be passed for"
        /\ outcome.path \in RefLessPaths(call.attributes, <<>>)

\* What does hold: a descriptor { type: 'ObjectId' } without ref that is
\* reached through objects only fails with its path from the root.
DescriptorInObjectsNamesPath ==
    outcome # NoCall =>
        \A k \in {"user", "owner"}, f \in {ObjectIdDescriptor, RequiredObjectId} :
            /\ call.attributes \in Siblings(k, f) => outcome = RefError(<<k>>)
            /\ call.attributes \in {Obj(<<Entry("profile", m)>>) : m \in Siblings(k, f)} =>
                   outcome = RefError(<<"profile", k>>)

(***************************************************************************)
(* The loader: loadModel and loadModelDir over the registry mongoose.models *)
(***************************************************************************)
\* What a load comes to: the error thrown ("" when it returned), the model
\* the error message names, and the registry as the load leaves it.
Loaded(registry) == [error |-> "", loading |-> "", models |-> registry]
LoadError(error, name, registry) == [error |-> error, loading |-> name, models |-> registry]

\* mongoose.model(name, schema) of a name that is free.
Registered(registry, name, schema) ==
    [n \in DOMAIN registry \cup {name} |-> IF n = name THEN schema ELSE registry[n]]

\* loadModel(definition, name).  mongoose.model throws OverwriteModelError for
\* a name that is registered with another schema object, and createSchema
\* makes a new one on every call.
LoadModel(definition, name, registry) ==
    IF ~Truthy(ObjGet(definition, <<"attributes">>))
    THEN LoadError("Invalid model definition, need attributes", name, registry)
    ELSE LET schema == AttributesToDefinition(ObjGet(definition, <<"attributes">>), <<>>)
         IN IF Threw(schema) THEN LoadError(schema.error, name, registry)
            ELSE IF name \in DOMAIN registry
                 THEN LoadError("Cannot overwrite model once compiled", name, registry)
                 ELSE Loaded(Registered(registry, name, schema.value))

\* startCase(basename).replace(/\s/g, '')
StartCase(basename) ==
    CASE basename = "user" -> "User"
      [] basename = "shop" -> "Shop"
      [] OTHER -> basename

\* JSON.parse(data): the text of a definition parses to it, any other text
\* is a syntax error.
JsonParses(data) == data.kind = "object"

\* definition.modelName || startCase(basename).replace(/\s/g, '')
ModelNameOf(file) ==
    IF Truthy(ObjGet(file.data, <<"modelName">>))
    THEN Head(ObjGet(file.data, <<"modelName">>).chars)
    ELSE StartCase(file.basename)

RECURSIVE LoadFiles(_, _, _)
\* The for loop of loadModelDir from the i-th file on.
LoadFiles(files, i, registry) ==
    IF i > Len(files) THEN Loaded(registry)
    ELSE IF ~files[i].json THEN LoadFiles(files, i + 1, registry)
         ELSE IF ~JsonParses(files[i].data)
              THEN LoadError("Unexpected token in JSON", "", registry)
              ELSE IF ModelNameOf(files[i]) \in DOMAIN registry
                   THEN LoadFiles(files, i + 1, registry)
                   ELSE LET one == LoadModel(files[i].data, ModelNameOf(files[i]), registry)
                        IN IF Threw(one) THEN one
                           ELSE LoadFiles(files, i + 1, one.models)

\* loadModelDir(dirPath), the directory given by its files as readdirSync
\* lists them.
LoadModelDir(files, registry) == LoadFiles(files, 1, registry)

(***************************************************************************)
(* SpecLoad: directories of definition files loaded one after another, and *)
(* single definitions loaded by name.                                      *)
(***************************************************************************)
MaxFiles == 2

NameAttributes == Obj(<<Entry("name", StringDescriptor)>>)
EmailAttributes == Obj(<<Entry("email", Word("String"))>>)
OwnerAttributes == Obj(<<Entry("owner", ObjectIdDescriptor)>>)

\* The definitions in the files: sound ones, one that names its model, one
\* without attributes and one whose attributes do not compile.
Definitions ==
    {Obj(<<Entry("attributes", NameAttributes)>>),
     Obj(<<Entry("attributes", EmailAttributes)>>),
     Obj(<<Entry("modelName", Word("User")), Entry("attributes", EmailAttributes)>>),
     Obj(<<Entry("modelName", Word("User"))>>),
     Obj(<<Entry("attributes", OwnerAttributes)>>)}

\* A file that does not hold JSON.
Malformed == Str(<<"{">>)

Files ==
    {[basename |-> b, json |-> TRUE, data |-> d] :
        b \in {"user", "shop"}, d \in Definitions \cup {Malformed}}
      \cup {[basename |-> "README", json |-> FALSE, data |-> Malformed]}

\* The directories: up to MaxFiles files, no file name twice.
Directories ==
    UNION {{fs \in [1..n -> Files] :
               \A i, j \in 1..n : i # j => fs[i].basename # fs[j].basename} : n \in 0..MaxFiles}

InitLoad ==
    /\ store = <<>>
    /\ nextId = 0
    /\ attributes = ProductAttributes
    /\ models = <<>>
    /\ rd = NoRead
    /\ spc = "idle"
    /\ sbody = NoBody
    /\ squery = EmptyObj
    /\ sdata = <<>>
    /\ stotal = 0
    /\ sfetched = FALSE
    /\ scounted = FALSE
    /\ dirty = FALSE
    /\ call = NoCall
    /\ outcome = NoCall

LoadVars == <<store, nextId, attributes, rd, spc, sbody, squery, sdata, stotal, sfetched,
              scounted, dirty>>

\* loadModelDir(dirPath) at startup or later
CallLoadModelDir ==
    /\ \E files \in Directories :
           /\ call' = [op |-> "loadModelDir", files |-> files]
           /\ outcome' = [error |-> LoadModelDir(files, models).error,
                          loading |-> LoadModelDir(files, models).loading]
           /\ models' = LoadModelDir(files, models).models
    /\ UNCHANGED LoadVars

\* loadModel(definition, name)
CallLoadModel ==
    /\ \E definition \in Definitions, name \in {"User", "Shop"} :
           /\ call' = [op |-> "loadModel",
                       files |-> <<[basename |-> name, json |-> TRUE, data |-> definition]>>]
           /\ outcome' = [error |-> LoadModel(definition, name, models).error,
                          loading |-> LoadModel(definition, name, models).loading]
           /\ models' = LoadModel(definition, name, models).models
    /\ UNCHANGED LoadVars

NextLoad == CallLoadModelDir \/ CallLoadModel

SpecLoad == InitLoad /\ [][NextLoad]_vars

\* The names of the models the definitions loaded by a call are for.
NamesLoaded(c) ==
    IF c.op = "loadModel" THEN {c.files[1].basename}
    ELSE {ModelNameOf(c.files[i]) :
             i \in {j \in 1..Len(c.files) : c.files[j].json /\ JsonParses(c.files[j].data)}}

\* C11: a load of a definition whose model name is already in the registry
\* fails: it never completes with the earlier registration kept.
C11_DuplicateNameIsFatal ==
    [][NamesLoaded(call') \cap DOMAIN models # {} => outcome'.error # ""]_vars

\* What does hold: loadModel of a registered name fails and leaves the
\* registry as it was.
LoadModelOfDuplicateFails ==
    [][call'.op = "loadModel" /\ NamesLoaded(call') \cap DOMAIN models # {} =>
           outcome'.error # "" /\ models' = models]_vars

(***************************************************************************)
(* assign(fields) and isReferenceField                                     *)
(***************************************************************************)
\* schema.obj: what createSchema hands to new mongoose.Schema.
SchemaObj(attrs) ==
    ObjSet(AttributesToDefinition(attrs, <<>>).value, DeletedAtKey,
           Obj(<<Entry("type", SchemaType("Date"))>>))

\* A test of the field itself, without resolving an array to its element.
IsReferenceFieldUnresolved(schema) ==
    ObjGet(schema, <<"type">>) = SchemaType("ObjectId")

\* resolveSchema(schema)?.type === ObjectIdSchemaType
IsReferenceField(schema) ==
    ObjGet(ResolveSchema(schema), <<"type">>) = SchemaType("ObjectId")

RECURSIVE AssignEntries(_, _, _, _)
\* The for loop of assign from the i-th entry of fields on.
AssignEntries(this, schemaObj, es, i) ==
    IF i > Len(es) THEN this
    ELSE LET key == es[i][1]
             value == IF ~Truthy(es[i][2]) /\ IsReferenceField(ObjGet(schemaObj, key))
                      THEN Undefined
                      ELSE es[i][2]
         IN AssignEntries(ObjSet(this, key, value), schemaObj, es, i + 1)

\* doc.assign(fields): the document's fields as the call leaves them.
Assign(this, schemaObj, fields) == AssignEntries(this, schemaObj, fields.entries, 1)

(***************************************************************************)
(* SpecAssign: documents of a model with a reference and an array of       *)
(* references, assigned fields of every kind.                              *)
(***************************************************************************)
UserRef == Obj(<<Entry("type", Word("ObjectId")), Entry("ref", Word("User"))>>)

MemberAttributes ==
    Obj(<<Entry("name", StringDescriptor), Entry("owner", UserRef),
          Entry("members", Arr(<<UserRef>>)), Entry("shop", Word("Number"))>>)

\* The values a client sends: the empty ones, an id, a text, a list.
AssignedValues ==
    {Undefined, Str(<<>>), Num("0"), Bool("false"), Str(IdOf(1)), Word("x"),
     Arr(<<>>), Arr(<<Str(IdOf(1))>>)}

\* The keys assigned: fields of the schema and one that is not.
AssignedKeys == {"name", "owner", "members", "shop", "nick"}

\* fields with one key, or with two in either order.
AssignedFields ==
    {Obj(<<Entry(k, v)>>) : k \in AssignedKeys, v \in AssignedValues}
      \cup UNION {{Obj(<<Entry(k, v), Entry(l, w)>>) :
                      l \in AssignedKeys \ {k}, v \in AssignedValues,
                      w \in {Str(<<>>), Word("x")}} : k \in {"owner", "members"}}

\* The documents assigned to: a new one and one with every field set.
AssignedDocuments ==
    {Obj(<<Entry("_id", Str(IdOf(2)))>>),
     Obj(<<Entry("_id", Str(IdOf(2))), Entry("name", Word("y")), Entry("owner", Str(IdOf(2))),
           Entry("members", Arr(<<Str(IdOf(2))>>)), Entry("shop", Num("1"))>>)}

InitAssign ==
    /\ store = <<>>
    /\ nextId = 0
    /\ attributes = ProductAttributes
    /\ models = <<>>
    /\ rd = NoRead
    /\ spc = "idle"
    /\ sbody = NoBody
    /\ squery = EmptyObj
    /\ sdata = <<>>
    /\ stotal = 0
    /\ sfetched = FALSE
    /\ scounted = FALSE
    /\ dirty = FALSE
    /\ call \in {[attributes |-> MemberAttributes, doc |-> d, fields |-> f] :
                    d \in AssignedDocuments, f \in AssignedFields}
    /\ outcome = NoCall

\* doc.assign(fields)
CallAssign ==
    /\ outcome = NoCall
    /\ outcome' = Assign(call.doc, SchemaObj(call.attributes), call.fields)
    /\ UNCHANGED <<store, nextId, attributes, models, rd, spc, sbody, squery, sdata, stotal,
                   sfetched, scounted, dirty, call>>

NextAssign == CallAssign

SpecAssign == InitAssign /\ [][NextAssign]_vars

\* The attributes declare the key as a reference, or as an array of them.
DeclaredReference(attrs, key) ==
    LET field == ObjGet(attrs, key)
        element == IF field.kind = "array" THEN ObjGet(field, <<"0">>) ELSE field
    IN ObjGet(element, <<"type">>) = Word("ObjectId")

KeysOf(o) == {o.entries[i][1] : i \in 1..Len(o.entries)}

\* C12: after assign(fields) a key of fields that is a reference, or an
\* array of references, and was given a falsy value is unset; every other
\* key of fields has exactly the value given; every other field of the
\* document is as it was.
C12_AssignSetsNamedKeys ==
    outcome # NoCall =>
        \A key \in KeysOf(call.doc) \cup KeysOf(call.fields) \cup KeysOf(outcome) :
            IF key \in KeysOf(call.fields)
            THEN IF DeclaredReference(call.attributes, key) /\ ~Truthy(ObjGet(call.fields, key))
                 THEN ObjGet(outcome, key) = Undefined
                 ELSE ObjGet(outcome, key) = ObjGet(call.fields, key)
            ELSE /\ key \in KeysOf(call.doc)
                 /\ ObjGet(outcome, key) = ObjGet(call.doc, key)

\* A document with members and a name was assigned an empty string for its
\* members and a text for a key outside the schema: the members are unset,
\* the key has the text, the name is as it was.
C12_Witness ==
    /\ outcome # NoCall
    /\ ObjGet(call.doc, <<"members">>) # Undefined
    /\ ObjGet(call.fields, <<"members">>) = Str(<<>>)
    /\ ObjGet(outcome, <<"members">>) = Undefined
    /\ ObjGet(outcome, <<"nick">>) = Word("x")
    /\ ObjGet(outcome, <<"name">>) = Word("y")

(***************************************************************************)
(* The two reads of search, and the soft-delete partition                  *)
(***************************************************************************)
\* C13: the page fetch and the count of a search are two reads of the store
\* with nothing that makes them one: the total differs from the number of
\* documents the fetch saw only when a write landed between the two reads
\* (and such an interleaving is reached, see the witness); a search that
\* failed, whichever read failed, returns neither data nor total.
C13_TwoReadsNoPartialResult ==
    /\ spc = "done" /\ sbody \in BasicBodies /\ stotal # Len(sdata) => dirty
    /\ spc = "failed" => sdata = <<>> /\ stotal = 0 /\ rd = NoRead

\* A write landed between the two reads of a search whose page holds every
\* match, and the search returned a total smaller than the number of
\* documents in data.
C13_Witness ==
    /\ spc = "done"
    /\ sbody \in BasicBodies
    /\ dirty
    /\ stotal < Len(sdata)

\* The filters that do not mention deletedAt: none, on a field, on the id.
PlainFilters == ShopFilters \cup {IdFilter(id) : id \in AllocatedIds}

\* C14: whatever was created, deleted, restored and destroyed, and for every
\* filter f without deletedAt, find(f) and findDeleted(f) are disjoint, their
\* union is findWithDeleted(f), and countDocuments(f) +
\* countDocumentsDeleted(f) = countDocumentsWithDeleted(f).
C14_DeletedPartition ==
    \A f \in PlainFilters :
        /\ Find(store, f) \cap FindDeleted(store, f) = {}
        /\ Find(store, f) \cup FindDeleted(store, f) = FindWithDeleted(store, f)
        /\ CountDocuments(store, f) + CountDocumentsDeleted(store, f)
               = CountDocumentsWithDeleted(store, f)

\* findWithDeleted has answered with a deleted and a non-deleted document
\* for a filter on a field.
C14_Witness ==
    /\ rd.op = "findWithDeleted"
    /\ rd.filter = Obj(<< <<ShopKey, Num("1")>> >>)
    /\ \E a, b \in rd.ids : SoftDeleted(a) /\ Active(b)
    /\ Find(store, rd.filter) # {}
    /\ FindDeleted(store, rd.filter) # {}

====
